---- MODULE Spec2Model ----
(***************************************************************************)
(* Model of src/embed.py: a FastAPI service that loads two sentence        *)
(* embedding models and one entity pipeline at startup and then serves     *)
(* /health, /embed, /embed_sentences, /analyze and /memory.                *)
(*                                                                         *)
(* The handlers declared with "def" run on worker threads; each in-flight  *)
(* request occupies one slot of req.  A handler is split into actions at   *)
(* its blocking library call (encode, pipeline), so that requests          *)
(* interleave there.  Every request keeps a log of the library calls and   *)
(* framework events made on its behalf, in order.                          *)
(*                                                                         *)
(* Spec serves one request at a time and lets clients send every sentence  *)
(* list up to MaxLen; SpecConc serves NumReqs requests at once and lets    *)
(* clients send lists of at most one sentence.                             *)
(***************************************************************************)
EXTENDS Integers, Sequences, FiniteSets, TLC

\* ---------------------------------------------------------------- bounds
NumReqs == 2          \* request slots (requests in flight at once)
MaxLen  == 2          \* longest sentence list of a batch request

\* ------------------------------------------------------ program constants
MemThreshold == 80    \* psutil.virtual_memory().percent > 80

SmallName == "intfloat/multilingual-e5-small"
LargeName == "intfloat/multilingual-e5-large-instruct"
OtherName == "no/such-model"

Reqs       == 1..NumReqs
ModelNames == {SmallName, LargeName, OtherName}   \* request.model
Prefixes   == {"", "p"}                           \* request.prefix
Texts      == {"a", "b"}                          \* request.text, sentences[i]
Devices    == {"cuda", "cpu"}
MemValues  == {MemThreshold, MemThreshold + 1}    \* host memory percent read
ErrMsgs    == {"boom"}                            \* str(e) of a library error

RECURSIVE SeqsUpTo(_)
SeqsUpTo(n) ==
    IF n = 0 THEN {<<>>}
    ELSE LET S == SeqsUpTo(n - 1)
         IN  S \cup {Append(s, t) : s \in {q \in S : Len(q) = n - 1}, t \in Texts}

SentenceLists == SeqsUpTo(MaxLen)

VARIABLES
    state,     \* "uninitialized" | "ready"
    loadpc,    \* position of startup_event inside load_models
    models,    \* ModelContainer.models : name -> handle
    nlp,       \* ModelContainer.nlp
    device,    \* ModelContainer.device
    startReg,  \* the registry as it was when startup_event returned
    pool,      \* the slots that serve requests (worker threads)
    lists,     \* the sentence lists clients send
    req        \* request slots

vars == <<state, loadpc, models, nlp, device, startReg, pool, lists, req>>

env == <<pool, lists>>

\* ------------------------------------------------------------- registry
None == [m |-> "None", dev |-> "None"]

\* SentenceTransformer(name, device=self.device)
SentenceTransformer(name, dev) == [m |-> name, dev |-> dev]

\* spacy.load("en_core_web_sm", disable=["parser"])
SpacyLoad == [m |-> "en_core_web_sm", dev |-> "nlp"]

EmptyDict == [k \in {} |-> None]

DictSet(d, k, v) == [x \in DOMAIN d \cup {k} |-> IF x = k THEN v ELSE d[x]]

Registry == [models |-> models, nlp |-> nlp, device |-> device]

\* what a failing load does to startup: the exception leaves load_models
\* and startup_event, and the server never starts serving (swallowing it
\* would let the next load run)
OnLoadFailure_Swallow(next) == next

OnLoadFailure(next) == "failed"

\* models.models.get(name): None when the key is absent
RegistryGet_Default(name) ==
    IF name \in DOMAIN models THEN models[SmallName] ELSE None

RegistryGet(name) ==
    IF name \in DOMAIN models THEN models[name] ELSE None

\* dict.get leaves the dict as it is (dict.pop would not)
AfterGet_Pop(d, name) == [k \in DOMAIN d \ {name} |-> d[k]]

AfterGet(d, name) == d

\* ----------------------------------------------------- library functions
\* model.encode(text): the vector depends on the model and on the text
Encode(h, s) == [by |-> h.m, of |-> s]

\* len(embedding): the output dimensionality of the model
Dim(h) == IF h.m = SmallName THEN 384 ELSE 1024

\* [f"{request.prefix}{s}" for s in request.sentences]
Prefixed_FirstOnly(prefix, sentences) ==
    [i \in 1..Len(sentences) |->
        IF i = 1 THEN prefix \o sentences[i] ELSE sentences[i]]

Prefixed(prefix, sentences) ==
    [i \in 1..Len(sentences) |-> prefix \o sentences[i]]

\* model.encode(list, batch_size=32): one vector per input, in input order
EncodeBatch(h, ss) == [i \in 1..Len(ss) |-> Encode(h, ss[i])]

\* doc.ents of models.nlp(sentence): the pipeline's spans, in order
Ents(h, sentence) ==
    IF sentence = "a" THEN <<>>
    ELSE <<[text |-> sentence, label |-> "PERSON"]>>

\* psutil.virtual_memory().percent > 80
MemoryPressure_Geq(percent) == percent >= MemThreshold

MemoryPressure(percent) == percent > MemThreshold

\* memory_cleanup(): the calls it makes, in order
CleanupEvents(dev) ==
    IF dev = "cuda" THEN <<"empty_cache", "gc">> ELSE <<"gc">>

\* background_tasks.add_task(memory_cleanup): the task is attached to the
\* response and not run here (calling memory_cleanup() would run it here)
AddTask_Inline(log, dev) == log \o CleanupEvents(dev)

AddTask(log, dev) == Append(log, "schedule")

\* ------------------------------------------------------------ responses
NoBody == [none |-> TRUE]
NoResp == [status |-> 0, detail |-> "", body |-> NoBody]

Ok(body) == [status |-> 200, detail |-> "", body |-> body]

\* raise HTTPException(status_code=code, detail=detail)
HTTPException(code, detail) == [status |-> code, detail |-> detail, body |-> NoBody]

\* str(e) of the HTTPException(400, detail) caught by the except clause:
\* "400: <detail>", or "" where the framework's exception has no __str__
StrHTTPException(detail) == {"", "400: " \o detail}

NotLoadedDetail(name) == "Model " \o name \o " not loaded"

\* if not request.sentences: raise HTTPException(400, "Empty sentence list")
\* (outside the try block; inside it the except clause would turn it to 500)
EmptyListResp_InTry == HTTPException(500, "400: Empty sentence list")

EmptyListResp == HTTPException(400, "Empty sentence list")

\* except Exception as e: raise HTTPException(status_code=500, detail=str(e))
ExceptResp_Generic(msg) == HTTPException(500, "Internal Server Error")

ExceptResp(msg) == HTTPException(500, msg)

\* an exception no handler catches: the framework answers 500 with its own
\* fixed text
UnhandledResp == [status |-> 500, detail |-> "Internal Server Error", body |-> NoBody]

\* round(rss / (1024**3), 2), in hundredths of a GiB, rss given in MiB
UsedGb(rssMiB) == (rssMiB * 100 + 512) \div 1024

RssValues == {300}

\* ------------------------------------------------------------- requests
Idle == [kind |-> "none", pc |-> "idle", model |-> "", prefix |-> "",
         text |-> "", sentences |-> <<>>, handle |-> None, mem |-> 0,
         err |-> "", log |-> <<>>, resp |-> NoResp]

Has(log, e) == \E i \in 1..Len(log) : log[i] = e

Count(log, e) == Cardinality({i \in 1..Len(log) : log[i] = e})

Pos(log, e) == CHOOSE i \in 1..Len(log) : log[i] = e

Set(r, rec) == req' = [req EXCEPT ![r] = rec]

\* --------------------------------------------------------------- startup
InitServer ==
    /\ state = "uninitialized"
    /\ loadpc = "small"
    /\ models = EmptyDict
    /\ nlp = None
    /\ device \in Devices
    /\ startReg = [models |-> EmptyDict, nlp |-> None, device |-> device]
    /\ req = [r \in Reqs |-> Idle]

Init ==
    /\ InitServer
    /\ pool = {1}
    /\ lists = SentenceLists

InitConc ==
    /\ InitServer
    /\ pool = Reqs
    /\ lists = {s \in SentenceLists : Len(s) <= 1}

LoadSmall ==
    /\ state = "uninitialized" /\ loadpc = "small"
    /\ \/ /\ models' = DictSet(models, SmallName, SentenceTransformer(SmallName, device))
          /\ loadpc' = "large"
       \/ /\ loadpc' = OnLoadFailure("large")
          /\ UNCHANGED models
    /\ UNCHANGED <<state, nlp, device, startReg, env, req>>

LoadLarge ==
    /\ state = "uninitialized" /\ loadpc = "large"
    /\ \/ /\ models' = DictSet(models, LargeName, SentenceTransformer(LargeName, device))
          /\ loadpc' = "nlp"
       \/ /\ loadpc' = OnLoadFailure("nlp")
          /\ UNCHANGED models
    /\ UNCHANGED <<state, nlp, device, startReg, env, req>>

LoadNlp ==
    /\ state = "uninitialized" /\ loadpc = "nlp"
    /\ \/ /\ nlp' = SpacyLoad
          /\ loadpc' = "done"
       \/ /\ loadpc' = OnLoadFailure("done")
          /\ UNCHANGED nlp
    /\ UNCHANGED <<state, models, device, startReg, env, req>>

\* startup_event returns: the server starts accepting requests
StartupDone ==
    /\ state = "uninitialized" /\ loadpc = "done"
    /\ state' = "ready"
    /\ startReg' = Registry
    /\ UNCHANGED <<loadpc, models, nlp, device, env, req>>

\* ------------------------------------------------------------- handlers
\* GET /health
Health(r) ==
    /\ state = "ready" /\ r \in pool /\ req[r].pc = "idle"
    /\ Set(r, [Idle EXCEPT !.kind = "health", !.pc = "done",
                           !.log = <<"send">>,
                           !.resp = Ok([status |-> "healthy", device |-> device])])
    /\ UNCHANGED <<state, loadpc, models, nlp, device, startReg, env>>

\* the lookup of embed_text and embed_batch: a missing model raises
\* HTTPException(400) inside the try block, which the except clause
\* catches and replaces
Lookup(r, rec) ==
    LET h == RegistryGet(rec.model)
    IN  /\ models' = AfterGet(models, rec.model)
        /\ IF h = None
           THEN \E d \in StrHTTPException(NotLoadedDetail(rec.model)) :
                    Set(r, [rec EXCEPT !.pc = "done", !.log = <<"send">>,
                                       !.resp = ExceptResp(d)])
           ELSE Set(r, [rec EXCEPT !.pc = "encode", !.handle = h])

\* POST /embed, up to the call of encode
EmbedStart(r) ==
    /\ state = "ready" /\ r \in pool /\ req[r].pc = "idle"
    /\ \E model \in ModelNames, prefix \in Prefixes, text \in Texts :
          Lookup(r, [Idle EXCEPT !.kind = "embed", !.model = model,
                                 !.prefix = prefix, !.text = text])
    /\ UNCHANGED <<state, loadpc, nlp, device, startReg, env>>

\* POST /embed, encode and the rest
EmbedEncode(r) ==
    /\ req[r].kind = "embed" /\ req[r].pc = "encode"
    /\ LET q == req[r]
           combined_text == q.prefix \o q.text
           embedding == Encode(q.handle, combined_text)
       IN  \/ Set(r, [q EXCEPT !.pc = "done", !.log = <<"encode", "send">>,
                               !.resp = Ok([embedding |-> embedding,
                                            dimensions |-> Dim(q.handle)])])
           \/ \E msg \in ErrMsgs :
                 Set(r, [q EXCEPT !.pc = "done", !.err = msg,
                                  !.log = <<"encode", "send">>,
                                  !.resp = ExceptResp(msg)])
    /\ UNCHANGED <<state, loadpc, models, nlp, device, startReg, env>>

\* POST /embed_sentences, up to the call of encode
BatchStart(r) ==
    /\ state = "ready" /\ r \in pool /\ req[r].pc = "idle"
    /\ \E sentences \in lists, prefix \in Prefixes, model \in ModelNames :
          LET rec == [Idle EXCEPT !.kind = "batch", !.model = model,
                                  !.prefix = prefix, !.sentences = sentences]
          IN  IF Len(sentences) = 0
              THEN /\ Set(r, [rec EXCEPT !.pc = "done", !.log = <<"send">>,
                                         !.resp = EmptyListResp])
                   /\ UNCHANGED models
              ELSE Lookup(r, rec)
    /\ UNCHANGED <<state, loadpc, nlp, device, startReg, env>>

\* POST /embed_sentences, encode and the rest; the framework sends the
\* response when the handler returns
BatchEncode(r) ==
    /\ req[r].kind = "batch" /\ req[r].pc = "encode"
    /\ LET q == req[r]
           prefixed == Prefixed(q.prefix, q.sentences)
           embeddings == EncodeBatch(q.handle, prefixed)
       IN  \/ \E percent \in MemValues :
                 LET log1 == IF MemoryPressure(percent)
                             THEN AddTask(<<"encode">>, device)
                             ELSE <<"encode">>
                 IN  Set(r, [q EXCEPT
                        !.pc = IF Has(log1, "schedule") THEN "background" ELSE "done",
                        !.mem = percent,
                        !.log = Append(log1, "send"),
                        !.resp = Ok([embeddings |-> embeddings,
                                     count |-> Len(embeddings)])])
           \/ \E msg \in ErrMsgs :
                 Set(r, [q EXCEPT !.pc = "done", !.err = msg,
                                  !.log = <<"encode", "send">>,
                                  !.resp = ExceptResp(msg)])
    /\ UNCHANGED <<state, loadpc, models, nlp, device, startReg, env>>

\* the framework runs the tasks attached to a response it has sent
RunBackground(r) ==
    /\ req[r].pc = "background"
    /\ Set(r, [req[r] EXCEPT !.pc = "done",
                             !.log = req[r].log \o CleanupEvents(device)])
    /\ UNCHANGED <<state, loadpc, models, nlp, device, startReg, env>>

\* POST /analyze, up to the call of the pipeline
AnalyzeStart(r) ==
    /\ state = "ready" /\ r \in pool /\ req[r].pc = "idle"
    /\ \E sentence \in Texts :
          Set(r, [Idle EXCEPT !.kind = "analyze", !.pc = "pipeline",
                              !.text = sentence, !.handle = nlp])
    /\ UNCHANGED <<state, loadpc, models, nlp, device, startReg, env>>

\* POST /analyze, the pipeline and the rest (there is no try block)
AnalyzeRun(r) ==
    /\ req[r].kind = "analyze" /\ req[r].pc = "pipeline"
    /\ LET q == req[r]
           ents == Ents(q.handle, q.text)
       IN  \/ Set(r, [q EXCEPT !.pc = "done", !.log = <<"pipeline", "send">>,
                               !.resp = Ok([entity_count |-> Len(ents),
                                            entities |-> ents])])
           \/ \E msg \in ErrMsgs :
                 Set(r, [q EXCEPT !.pc = "done", !.err = msg,
                                  !.log = <<"pipeline", "send">>,
                                  !.resp = UnhandledResp])
    /\ UNCHANGED <<state, loadpc, models, nlp, device, startReg, env>>

\* GET /memory
MemoryStatus(r) ==
    /\ state = "ready" /\ r \in pool /\ req[r].pc = "idle"
    /\ \E percent \in MemValues, rss \in RssValues :
          Set(r, [Idle EXCEPT !.kind = "memory", !.pc = "done",
                              !.mem = percent, !.log = <<"send">>,
                              !.resp = Ok([used_gb |-> UsedGb(rss),
                                           percent |-> percent])])
    /\ UNCHANGED <<state, loadpc, models, nlp, device, startReg, env>>

\* the exchange is over; the slot takes the next request
Release(r) ==
    /\ req[r].pc = "done"
    /\ Set(r, Idle)
    /\ UNCHANGED <<state, loadpc, models, nlp, device, startReg, env>>

Next ==
    \/ LoadSmall
    \/ LoadLarge
    \/ LoadNlp
    \/ StartupDone
    \/ \E r \in Reqs : Health(r)
    \/ \E r \in Reqs : EmbedStart(r)
    \/ \E r \in Reqs : EmbedEncode(r)
    \/ \E r \in Reqs : BatchStart(r)
    \/ \E r \in Reqs : BatchEncode(r)
    \/ \E r \in Reqs : RunBackground(r)
    \/ \E r \in Reqs : AnalyzeStart(r)
    \/ \E r \in Reqs : AnalyzeRun(r)
    \/ \E r \in Reqs : MemoryStatus(r)
    \/ \E r \in Reqs : Release(r)

Spec == Init /\ [][Next]_vars

SpecConc == InitConc /\ [][Next]_vars

\* ---------------------------------------------------------------- claims
Known(name) == name \in {SmallName, LargeName}

Answered(r) == req[r].resp.status # 0

IsCleanup(e) == e \in {"empty_cache", "gc"}

Calls(log) == Count(log, "encode") + Count(log, "pipeline")

\* C1: an /embed request that names a model the registry does not hold is
\* answered with status 400, and encode is not called for it.
C1_UnknownModelEmbed400 ==
    \A r \in Reqs :
        (req[r].kind = "embed" /\ Answered(r) /\ ~Known(req[r].model))
            => (req[r].resp.status = 400 /\ ~Has(req[r].log, "encode"))

\* C2: an /embed_sentences request with at least one sentence that names a
\* model the registry does not hold is answered with status 400, not 500,
\* and encode is not called for it.
C2_UnknownModelBatch400 ==
    \A r \in Reqs :
        (req[r].kind = "batch" /\ Answered(r) /\ Len(req[r].sentences) >= 1
            /\ ~Known(req[r].model))
            => (req[r].resp.status = 400 /\ ~Has(req[r].log, "encode"))

\* C3: an /embed_sentences request with an empty sentence list is answered
\* with status 400 whatever its prefix and model are; no model is looked up,
\* encode is not called and no cleanup is scheduled or run.
C3_EmptyBatch400 ==
    \A r \in Reqs :
        (req[r].kind = "batch" /\ req[r].sentences = <<>>)
            => /\ req[r].resp.status = 400
               /\ req[r].handle = None
               /\ req[r].log = <<"send">>

C3_Witness ==
    \E r \in Reqs :
        /\ req[r].kind = "batch" /\ req[r].sentences = <<>>
        /\ req[r].model = OtherName /\ req[r].prefix = "p"
        /\ Answered(r)

\* C4: a successful /embed_sentences request with n >= 1 sentences holds
\* exactly n vectors, the i-th being the encoding by the named model of the
\* prefix followed by the i-th sentence, and its count is n.
C4_BatchVectorsInOrder ==
    \A r \in Reqs :
        (req[r].kind = "batch" /\ req[r].resp.status = 200)
            => LET q == req[r]
                   n == Len(q.sentences)
               IN  /\ n >= 1
                   /\ Known(q.model)
                   /\ Len(q.resp.body.embeddings) = n
                   /\ q.resp.body.count = n
                   /\ \A i \in 1..n :
                          q.resp.body.embeddings[i] =
                              [by |-> q.model, of |-> q.prefix \o q.sentences[i]]

C4_Witness ==
    \E r \in Reqs :
        /\ req[r].kind = "batch" /\ req[r].resp.status = 200
        /\ req[r].sentences = <<"b", "a">> /\ req[r].prefix = "p"

\* C5: every call made by the cleanup of a request comes after the sending
\* of that request's response.
C5_CleanupAfterSend ==
    \A r \in Reqs :
        \A i \in 1..Len(req[r].log) :
            IsCleanup(req[r].log[i])
                => \E j \in 1..(i - 1) : req[r].log[j] = "send"

C5_Witness ==
    \E r \in Reqs :
        /\ Has(req[r].log, "schedule")
        /\ Has(req[r].log, "gc")
        /\ req[r].resp.status = 200

\* C6: once the service is ready, the registry's model names, model
\* handles, entity pipeline and device are those it had when startup
\* ended, whatever requests have been served or are being served.
C6_RegistryReadOnly ==
    state = "ready"
        => /\ models = startReg.models
           /\ nlp = startReg.nlp
           /\ device = startReg.device

C6_Witness ==
    \E r1, r2 \in Reqs :
        /\ r1 # r2
        /\ req[r1].kind = "embed" /\ req[r1].resp.status = 200
        /\ req[r2].kind = "batch" /\ req[r2].resp.status = 500
        /\ ~Known(req[r2].model)

FullRegistry ==
    /\ DOMAIN models = {SmallName, LargeName}
    /\ \A n \in DOMAIN models : models[n] # None
    /\ nlp # None

\* C7: the service is uninitialized or ready; a request is handled only
\* when it is ready; it is ready only with both models and the pipeline
\* loaded; after a failed load it stays uninitialized; the only change of
\* state is from uninitialized to ready.
C7_TwoStates ==
    /\ [](/\ state \in {"uninitialized", "ready"}
          /\ (\E r \in Reqs : req[r] # Idle) => state = "ready"
          /\ state = "ready" => FullRegistry
          /\ loadpc = "failed" => state = "uninitialized")
    /\ [][/\ state = "ready" => state' = "ready"
          /\ loadpc = "failed" => loadpc' = "failed"]_vars

C7_Witness ==
    /\ state = "ready"
    /\ \E r \in Reqs : Answered(r)

\* C8: the response to a successful /embed request holds the vector that
\* the model named in that request gives for that request's prefix and
\* text, whatever other requests are in flight.
C8_NoCrossContamination ==
    \A r \in Reqs :
        (req[r].kind = "embed" /\ req[r].resp.status = 200)
            => req[r].resp.body.embedding =
                   [by |-> req[r].model, of |-> req[r].prefix \o req[r].text]

C8_Witness ==
    \E r1, r2 \in Reqs :
        /\ req[r1].kind = "embed" /\ req[r1].resp.status = 200
        /\ req[r1].model = SmallName
        /\ req[r2].kind = "embed" /\ req[r2].pc = "encode"
        /\ req[r2].model = LargeName
        /\ req[r2].text # req[r1].text

\* C9 as stated: an exception in the encode step of /embed or
\* /embed_sentences or in the pipeline step of /analyze is answered with a
\* 5xx status and the raw message, and the step is called once.
C9_RawMessageEverywhere ==
    \A r \in Reqs :
        req[r].err # ""
            => /\ req[r].resp.status \in 500..599
               /\ req[r].resp.detail = req[r].err
               /\ Calls(req[r].log) = 1

\* C9 as amended: such an exception is answered with a 5xx status and the
\* step is called once; the raw message is in the response of /embed and
\* /embed_sentences.
C9_RawMessageFromEncode ==
    \A r \in Reqs :
        req[r].err # ""
            => /\ req[r].resp.status \in 500..599
               /\ req[r].kind \in {"embed", "batch"}
                      => req[r].resp.detail = req[r].err
               /\ Calls(req[r].log) = 1

C9_Witness ==
    \E r \in Reqs :
        /\ req[r].kind = "batch" /\ req[r].err # ""
        /\ Answered(r)

\* C10: a request schedules the cleanup at most once, and only an
\* /embed_sentences request with sentences and a loaded model whose encode
\* returned, at a host memory utilization above 80.
C10_ScheduleOnlyUnderPressure ==
    \A r \in Reqs :
        LET q == req[r]
        IN  /\ Count(q.log, "schedule") <= 1
            /\ Has(q.log, "schedule")
                   => /\ q.kind = "batch"
                      /\ Len(q.sentences) >= 1
                      /\ Known(q.model)
                      /\ q.err = ""
                      /\ q.mem > 80
                      /\ Has(q.log, "encode")
                      /\ Pos(q.log, "encode") < Pos(q.log, "schedule")

C10_Witness ==
    \E r \in Reqs :
        /\ Has(req[r].log, "schedule")
        /\ req[r].pc = "background"

====
